---- MODULE Spec2Model ----
(***************************************************************************)
(* Model of QwenSimpleClient (src/nodes.py): the class-level session cache *)
(* (_session, _session_created_at), _get_session and send_request, run by  *)
(* one or several threads.  Each action is one step of the Python code at  *)
(* the granularity of a read or a write of a class attribute; the POST is  *)
(* the only blocking step.                                                 *)
(***************************************************************************)
EXTENDS Integers, Sequences, FiniteSets, TLC

\* ---------------------------------------------------------------- bounds
NumThreads == 2
MaxCalls == 2
MaxTicks == 2

\* ------------------------------------------------------ program constants
\* SESSION_LIFETIME = 3600 (class attribute)
SESSION_LIFETIME == 3600

\* Python's None for the class attributes and locals that hold an object
\* or a number; session objects are numbered from 1 in creation order.
None == 0
NoTime == -1

Threads == 1..NumThreads
SessionIds == 1..MaxCalls

\* Steps the clock can make between two program steps: one second, or a
\* whole lifetime (so that ages 3599..3601 around the limit are reached).
TickSteps == {1, SESSION_LIFETIME}

\* ------------------------------------------------------------ the inputs
\* api_url and api_key values a caller can pass (STRING inputs).
UrlInputs == {"", "  ", "host-a", "ftp://host-a", "http://host-a", " https://host-b/ "}
KeyInputs == {"", " ", " key1 "}

\* A cleaning step that forgets to strip.
Strip_Nothing(s) == s

\* str.strip() on the input values above.
Strip(s) ==
  CASE s = "  " -> ""
    [] s = " " -> ""
    [] s = " https://host-b/ " -> "https://host-b/"
    [] s = " key1 " -> "key1"
    [] OTHER -> s

\* str.rstrip("/") on the stripped values.
RStripSlash(s) ==
  CASE s = "https://host-b/" -> "https://host-b"
    [] OTHER -> s

\* urllib.parse.urlparse on the cleaned values: (scheme, netloc).
urlparse(url) ==
  CASE url = "http://host-a" -> [scheme |-> "http", netloc |-> "host-a"]
    [] url = "https://host-b" -> [scheme |-> "https", netloc |-> "host-b"]
    [] url = "ftp://host-a" -> [scheme |-> "ftp", netloc |-> "host-a"]
    [] OTHER -> [scheme |-> "", netloc |-> ""]

\* A validation that forgets the scheme whitelist.
validate_url_AnyScheme(url) ==
  LET r == urlparse(url)
  IN  ~(r.scheme = "" \/ r.netloc = "")

\* _validate_url: scheme and netloc both present, scheme http or https.
validate_url(url) ==
  LET r == urlparse(url)
  IN  IF r.scheme = "" \/ r.netloc = "" THEN FALSE
      ELSE IF r.scheme \notin {"http", "https"} THEN FALSE
      ELSE TRUE

\* endpoint = f"{api_url}/engineer"
Endpoint(api_url) == api_url \o "/engineer"

\* ------------------------------------------------- the transport outcomes
\* What session.post(...) can do, seen from send_request: return a response
\* (status code and body) or raise.  The bodies of a 200 response:
\*   result_text     {"result": "<non-empty text>"}
\*   result_empty    {"result": ""}
\*   result_missing  {}
\*   not_json        response.json() raises ValueError
\*   json_list       top-level JSON array: result.get raises AttributeError
\*   result_number   {"result": 7}: truthy, len() raises TypeError
\*   result_list     {"result": ["x"]}: truthy, has a length
Statuses == {200, 204, 403, 404, 500, 503}
Bodies == {"result_text", "result_empty", "result_missing", "not_json",
           "json_list", "result_number", "result_list"}
Raises == {"ReadTimeout", "ConnectTimeout", "ConnectionError", "RetryError",
           "OtherError"}
Outcomes ==
  [kind : {"response"}, status : {200}, body : Bodies]
    \cup [kind : {"response"}, status : Statuses \ {200}, body : {"text"}]
    \cup [kind : {"raise"}, status : {0}, body : Raises]

\* The value send_request returns for an outcome of the POST: which return
\* statement produced it (msg), the status code of the response it answers
\* (code, 0 when there was no response), its Python type, whether it is the
\* server's 'result' value, and whether the handler clears the cached
\* session before returning.
Ret(msg, code, type, server, clear) ==
  [msg |-> msg, code |-> code, type |-> type, server |-> server, clear |-> clear,
   raised |-> FALSE]
Diag(msg, code) == Ret(msg, code, "str", FALSE, FALSE)

\* isinstance(exc, class) for the exceptions that can be raised inside the
\* try block (requests.exceptions: ConnectTimeout derives from both
\* ConnectionError and Timeout, RetryError only from RequestException;
\* AttributeError, TypeError and OtherError only from Exception).
IsInstance(exc, class) ==
  CASE class = "Timeout" -> exc \in {"ReadTimeout", "ConnectTimeout"}
    [] class = "ConnectionError" -> exc \in {"ConnectTimeout", "ConnectionError"}
    [] class = "RequestException" ->
         exc \in {"ReadTimeout", "ConnectTimeout", "ConnectionError", "RetryError"}
    [] class = "Exception" -> TRUE
    [] OTHER -> FALSE

\* Except clauses whose Timeout clause resets the cached session as well.
ExceptClauses_TimeoutClears(exc, code) ==
  IF IsInstance(exc, "Timeout") THEN Ret("ERR_TIMEOUT", code, "str", FALSE, TRUE)
  ELSE IF IsInstance(exc, "ConnectionError")
       THEN Ret("ERR_CONNECTION", code, "str", FALSE, TRUE)
  ELSE IF IsInstance(exc, "RequestException") THEN Diag("ERR_REQUEST", code)
  ELSE Diag("ERR_UNEXPECTED", code)

\* Except clauses whose ConnectionError clause forgets the reset.
ExceptClauses_NeverClears(exc, code) ==
  IF IsInstance(exc, "Timeout") THEN Diag("ERR_TIMEOUT", code)
  ELSE IF IsInstance(exc, "ConnectionError") THEN Diag("ERR_CONNECTION", code)
  ELSE IF IsInstance(exc, "RequestException") THEN Diag("ERR_REQUEST", code)
  ELSE Diag("ERR_UNEXPECTED", code)

\* The except clauses of send_request, tried in source order; only the
\* ConnectionError clause resets the cached session.
ExceptClauses(exc, code) ==
  IF IsInstance(exc, "Timeout") THEN Diag("ERR_TIMEOUT", code)
  ELSE IF IsInstance(exc, "ConnectionError")
       THEN Ret("ERR_CONNECTION", code, "str", FALSE, TRUE)
  ELSE IF IsInstance(exc, "RequestException") THEN Diag("ERR_REQUEST", code)
  ELSE Diag("ERR_UNEXPECTED", code)

\* A 200 branch whose `except ValueError` resets the cached session.
Handle200_ParseErrorClears(body) ==
  CASE body = "not_json" -> Ret("ERR_PARSE", 200, "str", FALSE, TRUE)
    [] body = "json_list" -> ExceptClauses("AttributeError", 200)
    [] body \in {"result_empty", "result_missing"} -> Diag("WARN_EMPTY", 200)
    [] body = "result_number" -> ExceptClauses("TypeError", 200)
    [] body = "result_list" -> Ret("RESULT", 200, "list", TRUE, FALSE)
    [] OTHER -> Ret("RESULT", 200, "str", TRUE, FALSE)

\* The body of the `if response.status_code == 200:` branch.
Handle200(body) ==
  CASE body = "not_json" -> Diag("ERR_PARSE", 200)
    [] body = "json_list" -> ExceptClauses("AttributeError", 200)
    [] body \in {"result_empty", "result_missing"} -> Diag("WARN_EMPTY", 200)
    [] body = "result_number" -> ExceptClauses("TypeError", 200)
    [] body = "result_list" -> Ret("RESULT", 200, "list", TRUE, FALSE)
    [] OTHER -> Ret("RESULT", 200, "str", TRUE, FALSE)

\* The if/elif chain on response.status_code.
HandleStatus(status, body) ==
  IF status = 200 THEN Handle200(body)
  ELSE IF status = 403 THEN Diag("ERR_403", status)
  ELSE IF status = 404 THEN Diag("ERR_404", status)
  ELSE IF status = 500 THEN Diag("ERR_500", status)
  ELSE Diag("ERR_STATUS", status)

\* What send_request does with the outcome of session.post.
Handle(o) ==
  IF o.kind = "raise" THEN ExceptClauses(o.body, 0)
  ELSE HandleStatus(o.status, o.body)

\* current_time - cls._session_created_at > cls.SESSION_LIFETIME
Expired(current, created_at) == current - created_at > SESSION_LIFETIME

\* -------------------------------------------------------- the SecureCodec
\* The codec of the secure variants of the client (spec.md 3 and 4.3): the
\* repository's sources for it are not in src/, so it is modelled from its
\* specification.  Bytes are 0..ByteMod-1; the deflate compressor is a
\* run-length coder, AES-GCM a stream cipher with a keyed checksum as tag,
\* base64 a re-chunking of every byte into two binary digits.
ByteMod == 4
NonceLen == 16
TagLen == 16
MaxPromptLen == 2

Keys == {0, 1, 2}
NonceSeeds == {0, 1}
Prompts == UNION {[1..n -> {0, 1}] : n \in 0..MaxPromptLen}
Payloads == [prompt : Prompts, seed : {0, 1}]

Ok(v) == [ok |-> TRUE, err |-> "", val |-> v]
Err(e) == [ok |-> FALSE, err |-> e, val |-> <<>>]

\* (1) canonical serialization: the fields in a fixed order, the prompt
\* length-prefixed.
Serialize(p) == <<Len(p.prompt)>> \o p.prompt \o <<p.seed>>

Deserialize(b) ==
  IF Len(b) < 2 \/ Len(b) # b[1] + 2 THEN Err("DecompressionError")
  ELSE Ok([prompt |-> SubSeq(b, 2, Len(b) - 1), seed |-> b[Len(b)]])

\* The length of the run of Head(s) at the front of s, at most max.
RECURSIVE RunLen(_, _)
RunLen(s, max) ==
  IF Len(s) < 2 \/ max = 1 \/ s[2] # s[1] THEN 1
  ELSE 1 + RunLen(Tail(s), max - 1)

\* (2) compression: runs of equal bytes as (byte, count) pairs.
RECURSIVE Compress(_)
Compress(s) ==
  IF s = <<>> THEN <<>>
  ELSE LET n == RunLen(s, ByteMod - 1)
       IN  <<s[1], n>> \o Compress(SubSeq(s, n + 1, Len(s)))

RECURSIVE Expand(_)
Expand(s) ==
  IF s = <<>> THEN <<>>
  ELSE [i \in 1..s[2] |-> s[1]] \o Expand(SubSeq(s, 3, Len(s)))

Decompress(s) ==
  IF Len(s) % 2 # 0 \/ \E i \in 1..Len(s) : (i % 2 = 0 /\ s[i] = 0)
  THEN Err("DecompressionError")
  ELSE Ok(Expand(s))

\* The freshly random 16-byte nonce, from the seed the random source gave.
Nonce(seed) == [i \in 1..NonceLen |-> (seed + i) % ByteMod]

RECURSIVE Sum(_)
Sum(s) == IF s = <<>> THEN 0 ELSE Head(s) + Sum(Tail(s))

\* The key stream of the cipher for byte i under (key, nonce).
KeyStream(key, nonce, i) == (key + Sum(nonce) + i) % ByteMod

\* (3) authenticated encryption: ciphertext and 16-byte tag.
Encrypt(key, nonce, pt) ==
  [i \in 1..Len(pt) |-> (pt[i] + KeyStream(key, nonce, i)) % ByteMod]

\* A decryption whose key stream is one position off.
Decrypt_OffByOne(key, nonce, ct) ==
  [i \in 1..Len(ct) |-> (ct[i] + ByteMod - KeyStream(key, nonce, i + 1)) % ByteMod]

Decrypt(key, nonce, ct) ==
  [i \in 1..Len(ct) |-> (ct[i] + ByteMod - KeyStream(key, nonce, i)) % ByteMod]

Tag(key, nonce, ct) ==
  LET mac == key + Sum(nonce) + Len(ct) + Sum([i \in 1..Len(ct) |-> i * ct[i]])
  IN  [i \in 1..TagLen |-> (mac + i) % ByteMod]

\* (5) base64: every byte as two binary digits.
RECURSIVE ToBase64(_)
ToBase64(b) ==
  IF b = <<>> THEN <<>> ELSE <<Head(b) \div 2, Head(b) % 2>> \o ToBase64(Tail(b))

FromBase64(c) ==
  IF Len(c) % 2 # 0 THEN Err("MalformedEnvelope")
  ELSE Ok([i \in 1..(Len(c) \div 2) |-> 2 * c[2 * i - 1] + c[2 * i]])

\* encode: serialize, compress, encrypt, (4) nonce || tag || ciphertext,
\* base64.
Encode(payload, key, seed) ==
  LET nonce == Nonce(seed)
      ct == Encrypt(key, nonce, Compress(Serialize(payload)))
  IN  ToBase64(nonce \o Tag(key, nonce, ct) \o ct)

\* The longest envelope on the wire, in digits.
MaxWireLen == 2 * (NonceLen + TagLen + 2 * (MaxPromptLen + 2))

\* A decode that checks the tag only after decompressing.
DecodeOrder_VerifyLast == <<"parse", "decrypt", "decompress", "verify", "deserialize">>

\* The stages of decode, in the order they run.
DecodeOrder == <<"parse", "verify", "decrypt", "decompress", "deserialize">>

\* One stage of decode on the working state d (the envelope's parts, the
\* working buffer, the result), under key.
DecodeStage(stage, d, wire, key) ==
  CASE stage = "parse" ->
         LET raw == FromBase64(wire)
         IN  IF ~raw.ok \/ Len(raw.val) < NonceLen + TagLen
             THEN [d EXCEPT !.err = "MalformedEnvelope"]
             ELSE [d EXCEPT !.nonce = SubSeq(raw.val, 1, NonceLen),
                            !.tag = SubSeq(raw.val, NonceLen + 1, NonceLen + TagLen),
                            !.ct = SubSeq(raw.val, NonceLen + TagLen + 1, Len(raw.val))]
    [] stage = "verify" ->
         IF Tag(key, d.nonce, d.ct) = d.tag
         THEN [d EXCEPT !.verified = TRUE]
         ELSE [d EXCEPT !.err = "AuthenticationFailed"]
    [] stage = "decrypt" -> [d EXCEPT !.buf = Decrypt(key, d.nonce, d.ct)]
    [] stage = "decompress" ->
         LET r == Decompress(d.buf)
         IN  IF r.ok THEN [d EXCEPT !.buf = r.val, !.decompressed = TRUE]
             ELSE [d EXCEPT !.err = r.err, !.decompressed = TRUE]
    [] OTHER ->
         LET r == Deserialize(d.buf)
         IN  IF r.ok THEN [d EXCEPT !.out = r.val] ELSE [d EXCEPT !.err = r.err]

NoPayload == [prompt |-> <<>>, seed |-> 0]
DecodeStart ==
  [nonce |-> <<>>, tag |-> <<>>, ct |-> <<>>, buf |-> <<>>, err |-> "", out |-> NoPayload,
   verified |-> FALSE, decompressed |-> FALSE]

\* ------------------------------------------------------------- the state
VARIABLES
  cls_session,            \* QwenSimpleClient._session: None or a session object
  cls_session_created_at, \* QwenSimpleClient._session_created_at: NoTime or a time
  n_created,              \* how many requests.Session objects were created so far
  closed,                 \* the session objects on which close() was called
  built_for,              \* per session object, the api_url of the call that created it
  now,                    \* time.time()
  ticks,                  \* clock steps taken
  calls,                  \* send_request calls started
  pc,                     \* per thread: where it is in send_request
  api_url,                \* per thread: api_url after strip().rstrip("/")
  api_key,                \* per thread: api_key after strip()
  current_time,           \* per thread: _get_session's current_time
  entry,                  \* per thread: the cache as it was when _get_session was entered
  gs_session,             \* per thread: _get_session's local `session` (the new object)
  session,                \* per thread: send_request's local `session`
  posts,                  \* per thread: the session.post calls of the current call
  post_req,               \* per thread: the POST this call issued and its outcome
  result,                 \* per thread: the value the call returns
  prev,                   \* the call that returned last: its result and session
  c_payload,              \* codec: the plaintext payload given to encode
  c_key,                  \* codec: the key given to encode and to decode
  c_wire,                 \* codec: the envelope on the wire
  c_touched,              \* codec: the wire was altered after encode
  c_stage,                \* codec: 0 before encode, then the next stage of decode
  c_dec                   \* codec: the working state of decode

vars == <<cls_session, cls_session_created_at, n_created, closed, built_for,
          now, ticks, calls, pc, api_url, api_key, current_time, entry,
          gs_session, session, posts, post_req, result, prev,
          c_payload, c_key, c_wire, c_touched, c_stage, c_dec>>

client_vars == <<cls_session, cls_session_created_at, n_created, closed, built_for,
                 now, ticks, calls, pc, api_url, api_key, current_time, entry,
                 gs_session, session, posts, post_req, result, prev>>
codec_vars == <<c_payload, c_key, c_wire, c_touched, c_stage, c_dec>>

cache_vars == <<cls_session, cls_session_created_at, n_created, closed, built_for>>
clock_vars == <<now, ticks>>
input_vars == <<api_url, api_key>>

NoEntry == [session |-> None, created_at |-> NoTime]
NoResponse == [kind |-> "none", status |-> 0, body |-> ""]
NoPost == [endpoint |-> "", key |-> "", session |-> None, response |-> NoResponse]
NoResult == Ret("", 0, "", FALSE, FALSE)
Raise(exc) ==
  [msg |-> exc, code |-> 0, type |-> "", server |-> FALSE, clear |-> FALSE,
   raised |-> TRUE]

ClientInit ==
  /\ cls_session = None
  /\ cls_session_created_at = NoTime
  /\ n_created = 0
  /\ closed = {}
  /\ built_for = [i \in SessionIds |-> ""]
  /\ now = 0
  /\ ticks = 0
  /\ calls = 0
  /\ pc = [t \in Threads |-> "idle"]
  /\ api_url = [t \in Threads |-> ""]
  /\ api_key = [t \in Threads |-> ""]
  /\ current_time = [t \in Threads |-> 0]
  /\ entry = [t \in Threads |-> NoEntry]
  /\ gs_session = [t \in Threads |-> None]
  /\ session = [t \in Threads |-> None]
  /\ posts = [t \in Threads |-> 0]
  /\ post_req = [t \in Threads |-> NoPost]
  /\ result = [t \in Threads |-> NoResult]
  /\ prev = [msg |-> "", code |-> 0, session |-> None]

\* No codec run: the plain client of src/nodes.py has none.
CodecIdle ==
  /\ c_payload = NoPayload
  /\ c_key = 0
  /\ c_wire = <<>>
  /\ c_touched = FALSE
  /\ c_stage = 0
  /\ c_dec = DecodeStart

Init == ClientInit /\ CodecIdle

\* ------------------------------------------------------------ the actions
\* send_request, up to the first read of the cache in _get_session: clean
\* and validate the inputs (return an error string when they are rejected),
\* build the request, enter _get_session and read the clock.
Call(t, url, key) ==
  /\ pc[t] = "idle"
  /\ calls < MaxCalls
  /\ calls' = calls + 1
  /\ LET u == RStripSlash(Strip(url))
         k == Strip(key)
     IN  /\ api_url' = [api_url EXCEPT ![t] = u]
         /\ api_key' = [api_key EXCEPT ![t] = k]
         /\ IF u = "" \/ k = ""
            THEN /\ result' = [result EXCEPT ![t] = Diag("ERR_INPUT", 0)]
                 /\ pc' = [pc EXCEPT ![t] = "done"]
                 /\ UNCHANGED <<current_time, entry>>
            ELSE IF ~validate_url(u)
            THEN /\ result' = [result EXCEPT ![t] = Diag("ERR_URL", 0)]
                 /\ pc' = [pc EXCEPT ![t] = "done"]
                 /\ UNCHANGED <<current_time, entry>>
            ELSE /\ current_time' = [current_time EXCEPT ![t] = now]
                 /\ entry' = [entry EXCEPT ![t] =
                       [session |-> cls_session, created_at |-> cls_session_created_at]]
                 /\ pc' = [pc EXCEPT ![t] = "gs_chk1"]
                 /\ UNCHANGED result
  /\ UNCHANGED codec_vars
  /\ UNCHANGED <<cache_vars, clock_vars, gs_session, session, posts, post_req, prev>>

\* `cls._session is None`
gs_chk1(t) ==
  /\ pc[t] = "gs_chk1"
  /\ pc' = [pc EXCEPT ![t] = IF cls_session = None THEN "gs_close_chk" ELSE "gs_chk2"]
  /\ UNCHANGED codec_vars
  /\ UNCHANGED <<cache_vars, clock_vars, input_vars, calls, current_time, entry,
                 gs_session, session, posts, post_req, result, prev>>

\* `cls._session_created_at is None`
gs_chk2(t) ==
  /\ pc[t] = "gs_chk2"
  /\ pc' = [pc EXCEPT ![t] =
        IF cls_session_created_at = NoTime THEN "gs_close_chk" ELSE "gs_chk3"]
  /\ UNCHANGED codec_vars
  /\ UNCHANGED <<cache_vars, clock_vars, input_vars, calls, current_time, entry,
                 gs_session, session, posts, post_req, result, prev>>

\* A freshness test that refreshes one second early (>= for >).
NeedsRefresh_Geq(t) == current_time[t] - cls_session_created_at >= SESSION_LIFETIME

\* A freshness test that also refreshes when the cached session was created
\* by a call to another server.
NeedsRefresh_PerRemote(t) ==
  \/ Expired(current_time[t], cls_session_created_at)
  \/ (cls_session # None /\ built_for[cls_session] # api_url[t])

\* The third operand of the freshness test, on the value of
\* cls._session_created_at read now.
NeedsRefresh(t) == Expired(current_time[t], cls_session_created_at)

\* `current_time - cls._session_created_at > cls.SESSION_LIFETIME`: the
\* attribute is read again; None here is a TypeError, raised outside the
\* try block of send_request.
gs_chk3(t) ==
  /\ pc[t] = "gs_chk3"
  /\ IF cls_session_created_at = NoTime
     THEN /\ pc' = [pc EXCEPT ![t] = "raised"]
          /\ result' = [result EXCEPT ![t] = Raise("TypeError")]
     ELSE /\ pc' = [pc EXCEPT ![t] =
                IF NeedsRefresh(t)
                THEN "gs_close_chk" ELSE "gs_ret"]
          /\ UNCHANGED result
  /\ UNCHANGED codec_vars
  /\ UNCHANGED <<cache_vars, clock_vars, input_vars, calls, current_time, entry,
                 gs_session, session, posts, post_req, prev>>

\* `if cls._session:`
gs_close_chk(t) ==
  /\ pc[t] = "gs_close_chk"
  /\ pc' = [pc EXCEPT ![t] = IF cls_session # None THEN "gs_close" ELSE "gs_create"]
  /\ UNCHANGED codec_vars
  /\ UNCHANGED <<cache_vars, clock_vars, input_vars, calls, current_time, entry,
                 gs_session, session, posts, post_req, result, prev>>

\* `cls._session.close()`: the attribute is read again; None here is an
\* AttributeError, raised outside the try block of send_request.
gs_close(t) ==
  /\ pc[t] = "gs_close"
  /\ IF cls_session = None
     THEN /\ pc' = [pc EXCEPT ![t] = "raised"]
          /\ result' = [result EXCEPT ![t] = Raise("AttributeError")]
          /\ UNCHANGED closed
     ELSE /\ closed' = closed \cup {cls_session}
          /\ pc' = [pc EXCEPT ![t] = "gs_create"]
          /\ UNCHANGED result
  /\ UNCHANGED codec_vars
  /\ UNCHANGED <<cls_session, cls_session_created_at, n_created, built_for,
                 clock_vars, input_vars, calls, current_time, entry,
                 gs_session, session, posts, post_req, prev>>

\* `session = requests.Session()`, the two mounts, `cls._session = session`
gs_create(t) ==
  /\ pc[t] = "gs_create"
  /\ LET new == n_created + 1
     IN  /\ n_created' = new
         /\ gs_session' = [gs_session EXCEPT ![t] = new]
         /\ built_for' = [built_for EXCEPT ![new] = api_url[t]]
         /\ cls_session' = new
  /\ pc' = [pc EXCEPT ![t] = "gs_stamp"]
  /\ UNCHANGED codec_vars
  /\ UNCHANGED <<cls_session_created_at, closed, clock_vars, input_vars, calls,
                 current_time, entry, session, posts, post_req, result, prev>>

\* `cls._session_created_at = current_time`
gs_stamp(t) ==
  /\ pc[t] = "gs_stamp"
  /\ cls_session_created_at' = current_time[t]
  /\ pc' = [pc EXCEPT ![t] = "gs_ret"]
  /\ UNCHANGED codec_vars
  /\ UNCHANGED <<cls_session, n_created, closed, built_for, clock_vars, input_vars,
                 calls, current_time, entry, gs_session, session, posts, post_req,
                 result, prev>>

\* `return cls._session`, assigned to send_request's `session`
gs_ret(t) ==
  /\ pc[t] = "gs_ret"
  /\ session' = [session EXCEPT ![t] = cls_session]
  /\ pc' = [pc EXCEPT ![t] = "post"]
  /\ UNCHANGED codec_vars
  /\ UNCHANGED <<cache_vars, clock_vars, input_vars, calls, current_time, entry,
                 gs_session, posts, post_req, result, prev>>

\* A POST sent on whatever session the cache holds at that moment.
PostSession_FromCache(t) == cls_session

\* The object whose post method is called: send_request's local `session`.
PostSession(t) == session[t]

\* `session.post(endpoint, json=payload, headers=headers, timeout=timeout)`
\* is called, inside the try block: on None it is an AttributeError.
post(t) ==
  /\ pc[t] = "post"
  /\ IF session[t] = None
     THEN /\ result' = [result EXCEPT ![t] = ExceptClauses("AttributeError", 0)]
          /\ pc' = [pc EXCEPT ![t] = "done"]
          /\ UNCHANGED <<posts, post_req>>
     ELSE /\ posts' = [posts EXCEPT ![t] = @ + 1]
          /\ post_req' = [post_req EXCEPT ![t] =
                [endpoint |-> Endpoint(api_url[t]), key |-> api_key[t],
                 session |-> PostSession(t), response |-> NoResponse]]
          /\ pc' = [pc EXCEPT ![t] = "wait"]
          /\ UNCHANGED result
  /\ UNCHANGED codec_vars
  /\ UNCHANGED <<cache_vars, clock_vars, input_vars, calls, current_time, entry,
                 gs_session, session, prev>>

\* session.post returns or raises, and send_request handles it up to its
\* return statement or, in the ConnectionError clause, up to the reset.
respond(t, o) ==
  /\ pc[t] = "wait"
  /\ result' = [result EXCEPT ![t] = Handle(o)]
  /\ pc' = [pc EXCEPT ![t] = IF Handle(o).clear THEN "inv1" ELSE "done"]
  /\ post_req' = [post_req EXCEPT ![t].response = o]
  /\ UNCHANGED codec_vars
  /\ UNCHANGED <<cache_vars, clock_vars, input_vars, calls, current_time, entry,
                 gs_session, session, posts, prev>>

\* `QwenSimpleClient._session = None`
inv1(t) ==
  /\ pc[t] = "inv1"
  /\ cls_session' = None
  /\ pc' = [pc EXCEPT ![t] = "inv2"]
  /\ UNCHANGED codec_vars
  /\ UNCHANGED <<cls_session_created_at, n_created, closed, built_for, clock_vars,
                 input_vars, calls, current_time, entry, gs_session, session, posts,
                 post_req, result, prev>>

\* `QwenSimpleClient._session_created_at = None`, then the return statement
inv2(t) ==
  /\ pc[t] = "inv2"
  /\ cls_session_created_at' = NoTime
  /\ pc' = [pc EXCEPT ![t] = "done"]
  /\ UNCHANGED codec_vars
  /\ UNCHANGED <<cls_session, n_created, closed, built_for, clock_vars, input_vars,
                 calls, current_time, entry, gs_session, session, posts, post_req,
                 result, prev>>

\* The call is over: its value (or its exception) reaches the host and the
\* frame's locals are gone.
Return(t) ==
  /\ pc[t] \in {"done", "raised"}
  /\ prev' = [msg |-> result[t].msg, code |-> result[t].code, session |-> session[t]]
  /\ pc' = [pc EXCEPT ![t] = "idle"]
  /\ api_url' = [api_url EXCEPT ![t] = ""]
  /\ api_key' = [api_key EXCEPT ![t] = ""]
  /\ current_time' = [current_time EXCEPT ![t] = 0]
  /\ entry' = [entry EXCEPT ![t] = NoEntry]
  /\ gs_session' = [gs_session EXCEPT ![t] = None]
  /\ session' = [session EXCEPT ![t] = None]
  /\ posts' = [posts EXCEPT ![t] = 0]
  /\ post_req' = [post_req EXCEPT ![t] = NoPost]
  /\ result' = [result EXCEPT ![t] = NoResult]
  /\ UNCHANGED codec_vars
  /\ UNCHANGED <<cache_vars, clock_vars, calls>>

\* time.time() advances.
Tick(d) ==
  /\ ticks < MaxTicks
  /\ ticks' = ticks + 1
  /\ now' = now + d
  /\ UNCHANGED codec_vars
  /\ UNCHANGED <<cache_vars, calls, pc, input_vars, current_time, entry, gs_session,
                 session, posts, post_req, result, prev>>

\* A call that starts while no other call is running.
SeqCall(t, url, key) ==
  /\ \A u \in Threads : pc[u] = "idle"
  /\ Call(t, url, key)

\* Threads call send_request concurrently.
Next ==
  \/ \E t \in Threads, url \in UrlInputs, key \in KeyInputs : Call(t, url, key)
  \/ \E t \in Threads : gs_chk1(t)
  \/ \E t \in Threads : gs_chk2(t)
  \/ \E t \in Threads : gs_chk3(t)
  \/ \E t \in Threads : gs_close_chk(t)
  \/ \E t \in Threads : gs_close(t)
  \/ \E t \in Threads : gs_create(t)
  \/ \E t \in Threads : gs_stamp(t)
  \/ \E t \in Threads : gs_ret(t)
  \/ \E t \in Threads : post(t)
  \/ \E t \in Threads, o \in Outcomes : respond(t, o)
  \/ \E t \in Threads : inv1(t)
  \/ \E t \in Threads : inv2(t)
  \/ \E t \in Threads : Return(t)
  \/ \E d \in TickSteps : Tick(d)

Spec == Init /\ [][Next]_vars

\* The calls run one after the other (the host runs one node at a time).
SeqNext ==
  \/ \E t \in Threads, url \in UrlInputs, key \in KeyInputs : SeqCall(t, url, key)
  \/ \E t \in Threads : gs_chk1(t)
  \/ \E t \in Threads : gs_chk2(t)
  \/ \E t \in Threads : gs_chk3(t)
  \/ \E t \in Threads : gs_close_chk(t)
  \/ \E t \in Threads : gs_close(t)
  \/ \E t \in Threads : gs_create(t)
  \/ \E t \in Threads : gs_stamp(t)
  \/ \E t \in Threads : gs_ret(t)
  \/ \E t \in Threads : post(t)
  \/ \E t \in Threads, o \in Outcomes : respond(t, o)
  \/ \E t \in Threads : inv1(t)
  \/ \E t \in Threads : inv2(t)
  \/ \E t \in Threads : Return(t)
  \/ \E d \in TickSteps : Tick(d)

SeqSpec == Init /\ [][SeqNext]_vars

\* ------------------------------------------------- the codec's round trip
\* encode(payload, key) with a nonce from the random source.
CodecEncode(seed) ==
  /\ c_stage = 0
  /\ c_wire = <<>>
  /\ c_wire' = Encode(c_payload, c_key, seed)
  /\ c_stage' = 1
  /\ UNCHANGED <<c_payload, c_key, c_touched, c_dec>>
  /\ UNCHANGED client_vars

\* The untrusted transport flips one digit of the envelope.
CodecTamper(i) ==
  /\ c_stage = 1
  /\ ~c_touched
  /\ i \in 1..Len(c_wire)
  /\ c_wire' = [c_wire EXCEPT ![i] = 1 - @]
  /\ c_touched' = TRUE
  /\ UNCHANGED <<c_payload, c_key, c_stage, c_dec>>
  /\ UNCHANGED client_vars

\* The untrusted transport truncates the envelope to n digits.
CodecTruncate(n) ==
  /\ c_stage = 1
  /\ ~c_touched
  /\ n < Len(c_wire)
  /\ c_wire' = SubSeq(c_wire, 1, n)
  /\ c_touched' = TRUE
  /\ UNCHANGED <<c_payload, c_key, c_stage, c_dec>>
  /\ UNCHANGED client_vars

\* decode(envelope, key) runs its next stage; a failed stage ends it.
CodecDecodeStep ==
  /\ c_stage \in 1..Len(DecodeOrder)
  /\ c_dec.err = ""
  /\ c_dec' = DecodeStage(DecodeOrder[c_stage], c_dec, c_wire, c_key)
  /\ c_stage' = c_stage + 1
  /\ UNCHANGED <<c_payload, c_key, c_wire, c_touched>>
  /\ UNCHANGED client_vars

CodecInit ==
  /\ ClientInit
  /\ c_payload \in Payloads
  /\ c_key \in Keys
  /\ c_wire = <<>>
  /\ c_touched = FALSE
  /\ c_stage = 0
  /\ c_dec = DecodeStart

CodecNext ==
  \/ \E seed \in NonceSeeds : CodecEncode(seed)
  \/ \E i \in 1..MaxWireLen : CodecTamper(i)
  \/ \E n \in 0..MaxWireLen : CodecTruncate(n)
  \/ CodecDecodeStep

CodecSpec == CodecInit /\ [][CodecNext]_vars

\* ------------------------------------------------------------ the claims
\* The cache a call found on entering _get_session held a session that the
\* freshness test accepts: present, stamped, and not older than 3600 s.
Fresh(t) ==
  /\ entry[t].session # None
  /\ entry[t].created_at # NoTime
  /\ current_time[t] - entry[t].created_at <= 3600

\* The same, and the cached session was created by a call to the server
\* this call addresses.
FreshSameRemote(t) == Fresh(t) /\ built_for[entry[t].session] = api_url[t]

\* _get_session returned the session it found, untouched.
Reused(t) ==
  /\ gs_session[t] = None
  /\ session[t] = entry[t].session
  /\ cls_session = entry[t].session
  /\ cls_session_created_at = entry[t].created_at
  /\ entry[t].session \notin closed

\* _get_session created a new session object and cached it.
Refreshed(t) ==
  /\ gs_session[t] = n_created
  /\ gs_session[t] # entry[t].session
  /\ session[t] = gs_session[t]
  /\ cls_session = gs_session[t]
  /\ cls_session_created_at = current_time[t]

\* C1 (as stated): a call reuses the cached session if and only if it
\* exists, was built against the remote this call addresses, and is at most
\* 3600 s old; otherwise it creates a new one.
C1_ReuseIffSameRemoteAndFresh ==
  \A t \in Threads :
    pc[t] = "post" => IF FreshSameRemote(t) THEN Reused(t) ELSE Refreshed(t)

\* C1 (amended): with the calls run one at a time, a call reuses the cached
\* session if and only if it exists and now - created_at <= 3600, whatever
\* server the call addresses; a reused session and its timestamp are left
\* unchanged, and in every other case a new session replaces the cached one.
C1_ReuseIffFresh ==
  \A t \in Threads :
    pc[t] = "post" => IF Fresh(t) THEN Reused(t) ELSE Refreshed(t)

\* A session exactly 3600 s old is reused by a call to another server.
C1_Witness ==
  \E t \in Threads :
    /\ pc[t] = "post"
    /\ Fresh(t)
    /\ current_time[t] - entry[t].created_at = 3600
    /\ built_for[entry[t].session] # api_url[t]
    /\ Reused(t)

\* The call ended in one of the three transport failures: a timeout, a
\* connection error, or a response with a status outside 2xx.
TimedOut(r) == r.msg = "ERR_TIMEOUT"
ConnectionFailed(r) == r.msg = "ERR_CONNECTION"
Non2xx(r) == r.code # 0 /\ (r.code < 200 \/ r.code > 299)
TransportFailed(r) == TimedOut(r) \/ ConnectionFailed(r) \/ Non2xx(r)

\* The value returned is a diagnostic string, not the server's text.
FailureOutcome(r) == ~r.raised /\ ~r.server /\ r.type = "str"

CacheEmpty == cls_session = None /\ cls_session_created_at = NoTime

\* The cache still holds the session this call posted on.
CacheKept(t) ==
  /\ cls_session = session[t]
  /\ cls_session # None
  /\ cls_session_created_at # NoTime
  /\ cls_session \notin closed

\* C2 (as stated): a call whose POST ends in a timeout, a connection error
\* or a non-2xx status ends in a failure outcome and leaves the cache empty.
C2_TransportFailureClears ==
  \A t \in Threads :
    (pc[t] = "done" /\ TransportFailed(result[t]))
      => (FailureOutcome(result[t]) /\ CacheEmpty)

\* C2 (amended): with the calls run one at a time, such a call ends in a
\* failure outcome; the cache is empty after a connection error that is not
\* a timeout, and after a timeout or a non-2xx status it still holds the
\* session the call used.
C2_OnlyConnectionErrorClears ==
  \A t \in Threads :
    (pc[t] = "done" /\ TransportFailed(result[t]))
      => /\ FailureOutcome(result[t])
         /\ IF ConnectionFailed(result[t]) THEN CacheEmpty ELSE CacheKept(t)

\* A call timed out and the session it used is still cached.
C2_Witness ==
  \E t \in Threads :
    pc[t] = "done" /\ TimedOut(result[t]) /\ posts[t] = 1 /\ CacheKept(t)

\* The call that returned last failed at the transport.
PrevTransportFailed == prev.session # None /\ TransportFailed(prev)

\* C3 (as stated): the call after a call that failed at the transport
\* creates a new session instead of reusing the failed call's session.
C3_FreshAfterTransportFailure ==
  \A t \in Threads :
    (pc[t] = "post" /\ PrevTransportFailed)
      => (Refreshed(t) /\ session[t] # prev.session)

\* C3 (amended): with the calls run one at a time, the call after a call
\* that failed with a connection error (not a timeout) creates a new
\* session; the call after a timeout or a non-2xx status reuses the failed
\* call's session while it is at most 3600 s old.
C3_FreshOnlyAfterConnectionError ==
  \A t \in Threads :
    (pc[t] = "post" /\ PrevTransportFailed)
      => IF ConnectionFailed(prev)
         THEN Refreshed(t) /\ session[t] # prev.session
         ELSE entry[t].session = prev.session
                /\ (current_time[t] - entry[t].created_at <= 3600
                      => Reused(t) /\ session[t] = prev.session)

\* The call after a non-2xx response posts on the same session.
C3_Witness ==
  \E t \in Threads :
    /\ pc[t] = "wait"
    /\ prev.session # None /\ Non2xx(prev)
    /\ post_req[t].session = prev.session

\* The region of _get_session between a failed freshness test and the
\* store of the new session and its timestamp.
Creating(t) == pc[t] \in {"gs_close_chk", "gs_close", "gs_create", "gs_stamp"}

\* C4: of the calls that run concurrently, at most one is creating a
\* session at any time.
C4_AtMostOneCreator ==
  \A t1, t2 \in Threads : (Creating(t1) /\ Creating(t2)) => t1 = t2

\* The transport answered 200 and the reply could not be decoded.
DecodeFailed(r) == r.code = 200 /\ r.msg \in {"ERR_PARSE", "ERR_UNEXPECTED"}

\* C5 (as stated): a call whose 200 reply cannot be decoded ends in a
\* failure outcome and leaves the cache empty.
C5_DecodeFailureClears ==
  \A t \in Threads :
    (pc[t] = "done" /\ DecodeFailed(result[t]))
      => (FailureOutcome(result[t]) /\ CacheEmpty)

\* C5 (amended): with the calls run one at a time, such a call ends in a
\* failure outcome and the cache still holds the session it used, which the
\* following call reuses while it is at most 3600 s old.
C5_DecodeFailureKeepsSession ==
  \A t \in Threads :
    /\ (pc[t] = "done" /\ DecodeFailed(result[t]))
         => (FailureOutcome(result[t]) /\ CacheKept(t))
    /\ (pc[t] = "post" /\ prev.session # None /\ DecodeFailed(prev) /\ Fresh(t))
         => session[t] = prev.session

\* The call after an unparseable 200 reply posts on the same session.
C5_Witness ==
  \E t \in Threads :
    /\ pc[t] = "wait"
    /\ prev.msg = "ERR_PARSE"
    /\ post_req[t].session = prev.session

\* C6 (as stated): a session is only used for a request addressed to the
\* remote it was built against.
C6_UsedOnlyForItsRemote ==
  \A t \in Threads :
    pc[t] = "wait" => built_for[post_req[t].session] = api_url[t]

\* C6 (amended): with the calls run one at a time, the cached session
\* records no remote: a call addressed to another server than the one of
\* the call that created the cached session, within 3600 s, is given that
\* same session, which is neither cleared nor closed nor replaced.
C6_ReusedAcrossRemotes ==
  \A t \in Threads :
    (pc[t] \in {"post", "wait"} /\ Fresh(t)
       /\ built_for[entry[t].session] # api_url[t])
      => Reused(t)

\* A POST to one server is in flight on a session created for another.
C6_Witness ==
  \E t \in Threads :
    /\ pc[t] = "wait"
    /\ built_for[post_req[t].session] # api_url[t]
    /\ post_req[t].endpoint = Endpoint(api_url[t])

\* The cleaned inputs pass the checks of send_request.
WellFormedUrls == {"http://host-a", "https://host-b"}
InputAccepted(t) == api_url[t] \in WellFormedUrls /\ api_key[t] # ""

\* The one POST of the call: to api_url + "/engineer", with the caller's
\* key in X-API-Key.
OnePost(t) ==
  /\ posts[t] = 1
  /\ post_req[t].endpoint = api_url[t] \o "/engineer"
  /\ post_req[t].key = api_key[t]

\* C7 (as stated): every call issues exactly one POST, whatever the inputs.
C7_ExactlyOnePost ==
  \A t \in Threads : pc[t] = "done" => OnePost(t)

\* C7 (amended): with the calls run one at a time, a call whose inputs are
\* accepted issues exactly one POST, to api_url + "/engineer" with the
\* caller's key in X-API-Key; a call whose inputs are rejected issues none;
\* no call issues more than one.
C7_OnePostIffAccepted ==
  \A t \in Threads :
    /\ posts[t] <= 1
    /\ pc[t] = "done" => IF InputAccepted(t) THEN OnePost(t) ELSE posts[t] = 0

\* A call with rejected inputs has ended without a POST.
C7_Witness ==
  \E t \in Threads :
    pc[t] = "done" /\ result[t].msg = "ERR_URL" /\ posts[t] = 0

\* C8: every call ends in one outcome, returned to the host as a string,
\* and never as an exception.
C8_ReturnsOneString ==
  \A t \in Threads :
    pc[t] \in {"done", "raised"} => (~result[t].raised /\ result[t].type = "str")

\* decode has ended, with a payload or with an error.
DecodeEnded == c_stage > Len(DecodeOrder) \/ c_dec.err # ""

\* C9: decode(encode(m, k), k) = m for every payload m and key k.
C9_RoundTrip ==
  (c_stage >= 1 /\ DecodeEnded /\ ~c_touched)
    => (c_dec.err = "" /\ c_dec.out = c_payload)

\* A payload with a run that the compressor shortens has made the trip.
C9_Witness ==
  /\ c_stage > Len(DecodeOrder)
  /\ ~c_touched
  /\ c_dec.err = ""
  /\ Len(c_payload.prompt) = MaxPromptLen
  /\ c_payload.prompt[1] = c_payload.prompt[2]
  /\ c_dec.out = c_payload

\* C10: decompression is reached only after the tag has verified; a decode
\* whose tag does not verify ends with AuthenticationFailed, nothing
\* decompressed.
C10_VerifyBeforeDecompress ==
  /\ c_dec.decompressed => c_dec.verified
  /\ (DecodeEnded /\ c_stage >= 3 /\ ~c_dec.verified)
       => (c_dec.err = "AuthenticationFailed" /\ ~c_dec.decompressed)

\* A tampered envelope was refused at the tag, nothing decompressed.
C10_Witness ==
  /\ c_touched
  /\ c_dec.err = "AuthenticationFailed"
  /\ ~c_dec.decompressed

\* The call is past _get_session and has not returned yet.
PastAcquire(t) == pc[t] \in {"post", "wait", "inv1", "inv2", "done"}

\* C11: the POST of a call is sent on the session the call got from
\* _get_session, also when another call has replaced or cleared the cached
\* session in between; the call's session does not change during the call.
C11_PostsOnItsSnapshot ==
  [][\A t \in Threads :
       /\ (PastAcquire(t) /\ PastAcquire(t)') => session'[t] = session[t]
       /\ (pc[t] = "post" /\ pc'[t] = "wait") => post_req'[t].session = session[t]
    ]_vars

\* A POST is in flight on the session its call acquired, sent after another
\* call had put a different session in the cache.
C11_Witness ==
  \E t \in Threads :
    /\ pc[t] = "wait"
    /\ post_req[t].session = session[t]
    /\ cls_session \notin {None, session[t]}

\* The call created the session the cache holds and has stamped it.
StampedBy(t) ==
  /\ cls_session # None
  /\ gs_session[t] = cls_session
  /\ pc[t] \in {"gs_ret", "post", "wait", "inv1", "inv2", "done"}

\* C12: in every state the cached session and its timestamp are both
\* absent or both present, the timestamp being the creation time of the
\* session object that is cached.
C12_ReplacedWholesale ==
  /\ (cls_session = None) <=> (cls_session_created_at = NoTime)
  /\ \A t \in Threads : StampedBy(t) => cls_session_created_at = current_time[t]

\* The call is between the first read of the freshness test of
\* _get_session and its return.
InGetSession(t) ==
  pc[t] \in {"gs_chk2", "gs_chk3", "gs_close_chk", "gs_close", "gs_create",
             "gs_stamp", "gs_ret"}

\* C13: no clearing step of one call runs while another call is between
\* the freshness test and the return of _get_session.
C13_InvalidateExcludesGetSession ==
  [][\A t1, t2 \in Threads :
       (t1 # t2 /\ pc[t1] \in {"inv1", "inv2"} /\ pc'[t1] # pc[t1])
         => ~InGetSession(t2)
    ]_vars

\* C14: no call reaches the POST step holding None for its session.
C14_SessionNeverNone ==
  \A t \in Threads : pc[t] \in {"post", "wait"} => session[t] # None

\* C15: no POST is issued or in flight on a session object that was closed.
C15_NoPostOnClosed ==
  \A t \in Threads : pc[t] = "wait" => post_req[t].session \notin closed

\* C16: every session object created so far that is not the cached one has
\* been closed.
C16_UncachedAreClosed ==
  \A i \in 1..n_created : i # cls_session => i \in closed

\* The cleaned inputs are ones send_request must reject.
Blank(x) == x \in {"", " ", "  "}
MustReject(url, key) == Blank(url) \/ Blank(key) \/ url \notin WellFormedUrls

\* C17: a call with inputs to reject returns an error string in its first
\* step, with no POST, and neither that step nor its return changes the
\* cached session, its timestamp, or the set of created and closed sessions.
C17_RejectionLeavesCache ==
  [][\A t \in Threads :
       /\ (pc[t] = "idle" /\ pc'[t] # "idle" /\ MustReject(api_url'[t], api_key'[t]))
            => /\ pc'[t] = "done"
               /\ result'[t].msg \in {"ERR_INPUT", "ERR_URL"}
               /\ FailureOutcome(result'[t])
               /\ posts'[t] = 0
               /\ UNCHANGED cache_vars
       /\ (pc[t] = "done" /\ pc'[t] = "idle" /\ MustReject(api_url[t], api_key[t]))
            => (posts[t] = 0 /\ UNCHANGED cache_vars)
    ]_vars

\* A call with a malformed URL was rejected while a session is cached.
C17_Witness ==
  \E t \in Threads :
    /\ pc[t] = "done"
    /\ result[t].msg = "ERR_URL"
    /\ api_url[t] = "ftp://host-a"
    /\ cls_session # None /\ cls_session_created_at # NoTime
    /\ posts[t] = 0

\* The transport returned 200 with a JSON body whose 'result' is non-empty.
OkReply(o) ==
  /\ o.kind = "response"
  /\ o.status = 200
  /\ o.body \in {"result_text", "result_number", "result_list"}

\* C18: the call returns the server's 'result' text, unchanged, exactly when
\* the transport returned 200 with a parseable body whose 'result' is
\* non-empty; for every other outcome it returns a diagnostic string.
C18_ResultIffOkReply ==
  \A t \in Threads :
    (pc[t] = "done" /\ posts[t] = 1)
      => IF OkReply(post_req[t].response)
         THEN result[t].server /\ result[t].type = "str"
         ELSE FailureOutcome(result[t])

====
